---------------------------- MODULE Spec2Model ----------------------------
(***************************************************************************)
(* A model of the Higgs field registry (higgs_king.h) and of the deferred  *)
(* reclamation stack (free_all.h).                                          *)
(*                                                                         *)
(* Reals.  A C double is modelled as a fixed-point integer counting units   *)
(* of 1/Scale, so 0.7 is 7000 and 0.0625 is 625.  Point coordinates are     *)
(* whole numbers and are kept unscaled.  TLC's integers are 32 bits wide:   *)
(* FMul and FDiv split their operands so that no intermediate product       *)
(* leaves that range.  NaN is one distinguished value outside the range of  *)
(* every number the model computes, and so is Inf.  The model's doubles are *)
(* finite up to DBL_MAX, which is 10^4 here: a product beyond it is Inf, as *)
(* a product beyond 1.8e308 is in the program.                              *)
(***************************************************************************)
EXTENDS Integers, Sequences, FiniteSets, TLC

VARIABLES
    points,          \* field->points[0 .. point_count-1], as a sequence
    point_count,     \* field->point_count
    coupling_factor, \* field->coupling_factor
    literals,        \* field->tick_stack->literals[0 .. literal_count-1]
    delta_topology,  \* field->tick_stack->delta_topology[0 .. topology_count-1]
    tick_stack,      \* free_all.h: the FreeTick list, head first
    tick_count,      \* free_all.h: tick_count
    released,        \* per handle, how many times free() was called on it
    crashed,         \* the process died in undefined behaviour (a second free)
    last_report,     \* the last diagnostic line written, "" when the call wrote none
    nsteps,          \* number of higgs_interaction calls that got past their guard
    npushes,         \* number of tick_push calls that linked an entry
    nsweeps,         \* number of tick_cascade runs
    scenario,        \* how far the calls so far follow main()'s sequence
    last_ptr,        \* the handle of the last tick_push that linked an entry
    hp_sweeps,       \* consecutive free_all_tickstack calls since that push,
                     \* counted from one that was made under high pressure
    field_tick_stack,\* field->tick_stack: the handle of the tick stack, or NullPtr
    measured         \* <<r>> when the last direct call of monitor_field_stability
                     \* returned r, << >> before the first such call

fieldVars == <<points, point_count, coupling_factor, literals, delta_topology,
               nsteps, scenario, measured, field_tick_stack>>
tickVars == <<tick_stack, tick_count, released, crashed, npushes, nsweeps,
              last_ptr, hp_sweeps>>
vars == <<points, point_count, coupling_factor, literals, delta_topology,
          tick_stack, tick_count, released, crashed, last_report, nsteps,
          npushes, nsweeps, scenario, last_ptr, hp_sweeps, measured,
          field_tick_stack>>

---------------------------------------------------------------------------
(* Fixed-point arithmetic *)

Scale == 10^4

NaN == -(2^30)

IsNaN(x) == x = NaN

Inf == 2^30

\* isinf(x); no operation of the model yields -Inf
IsInf(x) == x = Inf

NotFinite(x) == IsNaN(x) \/ IsInf(x)

DBL_MAX == 10^4 * Scale

\* a * b on two fixed-point numbers
FMul(a, b) == (a \div Scale) * b + ((a % Scale) * b) \div Scale

\* a / b on two fixed-point numbers, b > 0
FDiv(a, b) == (a \div b) * Scale + ((a % b) * Scale) \div b

Abs(x) == IF x < 0 THEN -x ELSE x

\* a * b as the C double product, for a >= 0 and b >= 0: NaN is contagious,
\* Inf * 0 is NaN, and a product above DBL_MAX is Inf
DMul(a, b) ==
    IF IsNaN(a) \/ IsNaN(b) THEN NaN
    ELSE IF IsInf(a) \/ IsInf(b) THEN (IF a = 0 \/ b = 0 THEN NaN ELSE Inf)
    ELSE IF b # 0 /\ a \div Scale > DBL_MAX \div b THEN Inf
    ELSE IF FMul(a, b) > DBL_MAX THEN Inf
    ELSE FMul(a, b)

RECURSIVE SqrtSearch(_, _, _)
SqrtSearch(n, lo, hi) ==
    IF lo >= hi THEN lo
    ELSE LET mid == (lo + hi + 1) \div 2
         IN IF mid * mid <= n THEN SqrtSearch(n, mid, hi)
            ELSE SqrtSearch(n, lo, mid - 1)

\* floor(sqrt(n)) for 0 <= n < 2^31
ISqrt(n) == SqrtSearch(n, 0, 46340)

---------------------------------------------------------------------------
(* Constants of the program *)

HIGGS_FIELD_DIM == 11
HIGGS_FIELD_SIZE == 100
TICKSTACK_SIZE == 50
HIGGS_ENERGY_FACTOR == 6180
HIGGS_COUPLING_BASE == 1250
FUZZY_CONFIDENCE_THRESHOLD == 7000
\* 1e-6, in units of 1/Scale^2 (the unit of a squared energy difference)
FIELD_STABILITY_THRESHOLD == 100
\* TICKSTACK_PHI, 1.618...
TICKSTACK_PHI == 16180
MAX_TICK_STACK == 1024
MEMORY_PRESSURE_THRESHOLD == 9000

One == Scale
Half == Scale \div 2

NullId == "<null>"
NullPtr == 0

\* the blocks init_higgs_field allocates (calloc at line 80, strdup at line 86)
TickStackPtr == 2^20
NamePtr == 2^20 + 1
\* sizeof(MultivarTickStack), and strlen("HiggsTickStack") + 1
TickStackSize == 440
NameSize == 15

---------------------------------------------------------------------------
(* Vector math and the delta topology engine (tickstack_11d: declared in   *)
(* fixed_memory_systems.h, the definitions are not among the sources)      *)

Dims == 1..HIGGS_FIELD_DIM

RECURSIVE SumSquares(_, _)
SumSquares(v, i) ==
    IF i = 0 THEN 0 ELSE v[i] * v[i] + SumSquares(v, i - 1)

HasNaN(v) == \E i \in Dims : IsNaN(v[i])

\* Euclidean norm, to two decimals; NaN when a component is NaN
vector_magnitude(v) ==
    IF HasNaN(v) THEN NaN
    ELSE ISqrt(SumSquares(v, HIGGS_FIELD_DIM) * 10^4) * (Scale \div 100)

\* push_electron_free_literal: append, a no-op at capacity
PUSH_LITERAL_Evicts(lits, coords) ==
    IF Len(lits) >= TICKSTACK_SIZE THEN Append(Tail(lits), coords) ELSE Append(lits, coords)

PUSH_LITERAL(lits, coords) ==
    IF Len(lits) >= TICKSTACK_SIZE THEN lits ELSE Append(lits, coords)

DeltaRecord(a, b) ==
    LET d == [k \in Dims |-> a[k] - b[k]]
        m == vector_magnitude(d)
    IN [deltas |-> d, magnitude |-> m, harmonic_factor |-> FDiv(m, TICKSTACK_PHI)]

\* one record per consecutive pair of literals, replacing the previous list
compute_multivar_delta_topology(lits) ==
    IF Len(lits) < 2 THEN << >>
    ELSE [i \in 1..(Len(lits) - 1) |-> DeltaRecord(lits[i + 1], lits[i])]

---------------------------------------------------------------------------
(* higgs_king.h: the field point registry *)

RECURSIVE SumEnergy(_, _)
SumEnergy(pts, n) ==
    IF n = 0 THEN 0 ELSE pts[n].energy + SumEnergy(pts, n - 1)

\* diff * diff in units of 1/Scale^2; a difference of 0.1 or more saturates
\* at 10^6 units (0.01), far above FIELD_STABILITY_THRESHOLD times any count
SquareDiff(d) == IF Abs(d) >= 1000 THEN 10^6 ELSE d * d

RECURSIVE SumSquareDiff(_, _, _)
SumSquareDiff(pts, mean, n) ==
    IF n = 0 THEN 0
    ELSE SquareDiff(pts[n].energy - mean) + SumSquareDiff(pts, mean, n - 1)

monitor_field_stability_Constant(pts) == One

\* monitor_field_stability over the first Len(pts) points
monitor_field_stability(pts) ==
    IF Len(pts) = 0 THEN One
    ELSE IF \E i \in 1..Len(pts) : NotFinite(pts[i].energy)
    THEN Half   \* the variance is Inf or NaN, and not below the threshold
    ELSE LET mean_energy == SumEnergy(pts, Len(pts)) \div Len(pts)
             variance == SumSquareDiff(pts, mean_energy, Len(pts)) \div Len(pts)
         IN IF variance < FIELD_STABILITY_THRESHOLD THEN One ELSE Half

Dampen_KeepsThreshold(score) ==
    IF score >= FUZZY_CONFIDENCE_THRESHOLD THEN score ELSE FMul(score, 8000)

\* line 139: score > FUZZY_CONFIDENCE_THRESHOLD ? score : score * 0.8
Dampen(score) ==
    IF score > FUZZY_CONFIDENCE_THRESHOLD THEN score ELSE FMul(score, 8000)

\* fuzzy_score_point(point, field); pts are the field's points, `point` among them
fuzzy_score_point(point, pts) ==
    LET energy_factor == FDiv(point.energy, HIGGS_ENERGY_FACTOR * HIGGS_FIELD_DIM)
        mass_factor == FDiv(point.mass, 2 * Scale)
        stability_factor == monitor_field_stability(pts)
        score1 == IF energy_factor < mass_factor THEN energy_factor ELSE mass_factor
        score2 == IF score1 < stability_factor THEN score1 ELSE stability_factor
    IN Dampen(score2)

Swap(pts, i) ==
    [pts EXCEPT ![i] = pts[i - 1], ![i - 1] = pts[i]]

SortBack_NoSwap(pts, i) == pts

RECURSIVE SortBack_PastTies(_, _)
SortBack_PastTies(pts, i) ==
    IF i > 1 /\ pts[i].fuzzy_score >= pts[i - 1].fuzzy_score
    THEN SortBack_PastTies(Swap(pts, i), i - 1)
    ELSE pts

\* lines 121-125: walk the new point toward the front
RECURSIVE SortBack(_, _)
SortBack(pts, i) ==
    IF i > 1 /\ pts[i].fuzzy_score > pts[i - 1].fuzzy_score
    THEN SortBack(Swap(pts, i), i - 1)
    ELSE pts

RegistryFull_OffByOne(n) == n > HIGGS_FIELD_SIZE

\* line 96: field->point_count >= HIGGS_FIELD_SIZE
RegistryFull(n) == n >= HIGGS_FIELD_SIZE

InvalidAddInput_NoTagCheck(n, id) == RegistryFull(n)

\* line 96; field and coords are never NULL in the model
InvalidAddInput(n, id) == RegistryFull(n) \/ id = NullId

---------------------------------------------------------------------------
(* main()'s sequence of calls, followed by an observer *)

P1 == [i \in Dims |-> IF i % 2 = 1 THEN 10 ELSE -10]
P2 == [i \in Dims |-> IF i % 2 = 1 THEN -10 ELSE 10]

ScenarioAfterAdd(coords, mass) ==
    IF scenario = "start" /\ coords = P1 /\ mass = One THEN "p1"
    ELSE IF scenario = "p1" /\ coords = P2 /\ mass = 2 * One THEN "p1p2"
    ELSE "off"

ScenarioAfterStep == IF scenario = "p1p2" THEN "stepped" ELSE "off"

---------------------------------------------------------------------------
(* add_higgs_point *)

\* The point written at lines 101-114.  Two history fields travel with the
\* struct and are read by no operation: inserted_at is the index the point was
\* written at (index = point_count++, counted from 1: the ordinal of its
\* insert), inserted_score the value line 112 stored.
NewPoint(coords, mass, insert_id, pts) ==
    LET mag == vector_magnitude(coords)
        p0 == [field |-> coords, energy |-> FMul(mag, HIGGS_ENERGY_FACTOR),
               mass |-> mass, is_interacting |-> 1, fuzzy_score |-> 0,
               insert_id |-> insert_id,
               inserted_at |-> Len(pts) + 1, inserted_score |-> 0]
        score == fuzzy_score_point(p0, Append(pts, p0))
    IN [p0 EXCEPT !.fuzzy_score = score, !.inserted_score = score]

add_higgs_point_NoRollback(coords, mass, insert_id) ==
    /\ ~crashed
    /\ IF InvalidAddInput(point_count, insert_id)
       THEN /\ last_report' = "Invalid input in add_higgs_point"
            /\ UNCHANGED <<points, point_count, literals>>
            /\ scenario' = "off"
       ELSE IF IsNaN(vector_magnitude(coords))
       THEN /\ last_report' = "Invalid magnitude in add_higgs_point"
            /\ points' = Append(points, [NewPoint(P1, mass, insert_id, points)
                                            EXCEPT !.field = coords])
            /\ point_count' = point_count + 1
            /\ UNCHANGED literals
            /\ scenario' = "off"
       ELSE /\ points' = SortBack(Append(points, NewPoint(coords, mass, insert_id, points)),
                                  point_count + 1)
            /\ point_count' = point_count + 1
            /\ literals' = PUSH_LITERAL(literals, coords)
            /\ last_report' = ""
            /\ scenario' = ScenarioAfterAdd(coords, mass)
    /\ UNCHANGED <<coupling_factor, delta_topology, nsteps, measured, field_tick_stack>>
    /\ UNCHANGED tickVars

add_higgs_point(coords, mass, insert_id) ==
    /\ ~crashed
    /\ IF InvalidAddInput(point_count, insert_id)
       THEN /\ last_report' = "Invalid input in add_higgs_point"
            /\ UNCHANGED <<points, point_count, literals>>
            /\ scenario' = "off"
       ELSE IF IsNaN(vector_magnitude(coords))
       THEN \* point_count++ ... point_count--: only the slot past the end was written
            /\ last_report' = "Invalid magnitude in add_higgs_point"
            /\ UNCHANGED <<points, point_count, literals>>
            /\ scenario' = "off"
       ELSE /\ points' = SortBack(Append(points, NewPoint(coords, mass, insert_id, points)),
                                  point_count + 1)
            /\ point_count' = point_count + 1
            /\ literals' = PUSH_LITERAL(literals, coords)
            /\ last_report' = ""
            /\ scenario' = ScenarioAfterAdd(coords, mass)
    /\ UNCHANGED <<coupling_factor, delta_topology, nsteps, measured, field_tick_stack>>
    /\ UNCHANGED tickVars

---------------------------------------------------------------------------
(* higgs_interaction *)

CouplingFactor_Fixed(stability) == HIGGS_COUPLING_BASE

\* line 170
CouplingFactor(stability) == FMul(HIGGS_COUPLING_BASE, stability)

Participates_Dampened(p) == p.fuzzy_score >= FMul(FUZZY_CONFIDENCE_THRESHOLD, 8000)

Participates_All(p) == TRUE

\* line 174: a point with fuzzy_score < FUZZY_CONFIDENCE_THRESHOLD is skipped
Participates(p) == ~(p.fuzzy_score < FUZZY_CONFIDENCE_THRESHOLD)

Interact_Rescore(p, cf, anchor) ==
    LET q == [p EXCEPT !.energy = FMul(p.energy, One + FMul(cf, anchor.magnitude)),
                       !.mass = FMul(p.mass, One + FMul(cf, anchor.harmonic_factor))]
    IN [q EXCEPT !.fuzzy_score = fuzzy_score_point(q, <<p, q>>)]

\* lines 181-182; a participating point has energy > 0 and mass > 0
Interact(p, cf, anchor) ==
    [p EXCEPT !.energy = DMul(p.energy, One + FMul(cf, anchor.magnitude)),
              !.mass = DMul(p.mass, One + FMul(cf, anchor.harmonic_factor))]

InteractAll_LastRecord(pts, cf, topo) ==
    IF Len(topo) = 0 THEN pts
    ELSE [i \in 1..Len(pts) |->
            IF ~Participates(pts[i]) THEN pts[i]
            ELSE Interact(pts[i], cf, topo[Len(topo)])]

InteractAll_Reversed(pts, cf, topo) ==
    [i \in 1..Len(pts) |-> pts[Len(pts) + 1 - i]]

\* lines 173-187, every point against record 0 of the topology
InteractAll(pts, cf, topo) ==
    IF Len(topo) = 0 THEN pts
    ELSE [i \in 1..Len(pts) |->
            IF ~Participates(pts[i]) THEN pts[i]
            ELSE IF NotFinite(topo[1].magnitude) \/ NotFinite(topo[1].harmonic_factor)
            THEN pts[i]
            ELSE Interact(pts[i], cf, topo[1])]

InsufficientPoints_OnlyEmpty(n) == n < 1

\* line 164: field->point_count < 2
InsufficientPoints(n) == n < 2

higgs_interaction ==
    /\ ~crashed
    /\ IF InsufficientPoints(point_count)
       THEN /\ last_report' = "Invalid field or insufficient points in higgs_interaction"
            /\ UNCHANGED <<points, coupling_factor, delta_topology, nsteps>>
       ELSE /\ coupling_factor' = CouplingFactor(monitor_field_stability(points))
            /\ delta_topology' = compute_multivar_delta_topology(literals)
            /\ points' = InteractAll(points, coupling_factor', delta_topology')
            /\ nsteps' = nsteps + 1
            /\ last_report' = ""
    /\ scenario' = IF InsufficientPoints(point_count) THEN "off" ELSE ScenarioAfterStep
    /\ UNCHANGED <<point_count, literals, measured, field_tick_stack>>
    /\ UNCHANGED tickVars

---------------------------------------------------------------------------
(* monitor_field_stability called by a client of the header *)

stability_query ==
    /\ ~crashed
    /\ measured' = <<monitor_field_stability(points)>>
    /\ last_report' = ""
    /\ UNCHANGED <<points, point_count, coupling_factor, literals, delta_topology,
                   nsteps, scenario, field_tick_stack>>
    /\ UNCHANGED tickVars

---------------------------------------------------------------------------
(* free_all.h: the reclamation stack *)

monitor_memory_pressure_AlwaysHigh(n) == 9000

\* monitor_memory_pressure, with tick_count = n
monitor_memory_pressure(n) ==
    IF n * Scale > MAX_TICK_STACK * MEMORY_PRESSURE_THRESHOLD THEN 9000 ELSE 5000

\* fuzzy_score_ptr(ptr, size, ref_count), with tick_count = n
fuzzy_score_ptr(size, ref_count, n) ==
    LET size_factor == IF size > 1024 THEN 9000 ELSE (size * Scale) \div 1024
        ref_factor == IF ref_count > 1 THEN 7000 ELSE 3000
        memory_pressure == monitor_memory_pressure(n)
        score == IF size_factor < ref_factor THEN size_factor ELSE ref_factor
    IN IF score < memory_pressure THEN score ELSE memory_pressure

\* lines 56-59: the score tick_push stores
TickScore(size, ref_count, n) ==
    LET s == fuzzy_score_ptr(size, ref_count, n)
    IN IF s < FUZZY_CONFIDENCE_THRESHOLD THEN FMul(s, 8000) ELSE s

InsertAt(stack, t, k) ==
    [i \in 1..(Len(stack) + 1) |->
        IF i <= k THEN stack[i] ELSE IF i = k + 1 THEN t ELSE stack[i - 1]]

\* lines 66-69: cur stops at the first entry whose successor does not outscore t
RECURSIVE ScanFrom(_, _, _)
ScanFrom(stack, t, cur) ==
    IF cur < Len(stack) /\ stack[cur + 1].fuzzy_score > t.fuzzy_score
    THEN ScanFrom(stack, t, cur + 1)
    ELSE cur

InsertByPriority_AtTail(stack, t) == Append(stack, t)

InsertByPriority_Dedup(stack, t) ==
    IF \E i \in 1..Len(stack) : stack[i].ptr = t.ptr THEN stack
    ELSE IF Len(stack) = 0 \/ t.fuzzy_score > stack[1].fuzzy_score
    THEN <<t>> \o stack
    ELSE InsertAt(stack, t, ScanFrom(stack, t, 1))

InsertByPriority_TiesFront(stack, t) ==
    IF Len(stack) = 0 \/ t.fuzzy_score >= stack[1].fuzzy_score
    THEN <<t>> \o stack
    ELSE InsertAt(stack, t, ScanFrom(stack, t, 1))

\* lines 62-72: link t in front, or behind the entry the scan stops at
InsertByPriority(stack, t) ==
    IF Len(stack) = 0 \/ t.fuzzy_score > stack[1].fuzzy_score
    THEN <<t>> \o stack
    ELSE InsertAt(stack, t, ScanFrom(stack, t, 1))

\* free_all.h line 209
is_valid_ptr(ptr) == ptr # NullPtr

ReleaseCount(h) == IF h \in DOMAIN released THEN released[h] ELSE 0

Freeable(e) == e.ptr # NullPtr /\ is_valid_ptr(e.ptr)

WalkOrder_TailFirst(stack) ==
    LET kept == SelectSeq(stack, Freeable)
    IN [i \in 1..Len(kept) |-> kept[Len(kept) + 1 - i]]

\* lines 85-97: cur runs from the head along next; the entries whose pointer
\* is passed to free(), in the order of the calls
WalkOrder(stack) == SelectSeq(stack, Freeable)

\* the free(cur->ptr) calls of one walk over `stack` (lines 85-97), added to
\* the calls made so far
ReleasedAfterWalk(stack) ==
    LET order == WalkOrder(stack)
    IN [h \in (DOMAIN released) \cup {order[i].ptr : i \in 1..Len(order)} |->
            ReleaseCount(h) + Cardinality({i \in 1..Len(order) : order[i].ptr = h})]

\* lines 87-91: the warning is written for an entry whose pointer is set and
\* fails is_valid_ptr
WalkWarns(stack) ==
    \E i \in 1..Len(stack) : stack[i].ptr # NullPtr /\ ~is_valid_ptr(stack[i].ptr)

\* the effect of tick_cascade (lines 83-105).  free() on a pointer already
\* freed is undefined behaviour: the process may die there or run on.
CascadeEffect ==
    /\ released' = ReleasedAfterWalk(tick_stack)
    /\ tick_stack' = << >>
    /\ tick_count' = 0
    /\ nsweeps' = nsweeps + 1
    /\ crashed' \in IF \E h \in DOMAIN released' : released'[h] > 1
                    THEN {TRUE, FALSE} ELSE {FALSE}
    /\ last_report' = IF WalkWarns(tick_stack)
                      THEN "FREE_ALL Warning: Double-free attempt" ELSE ""

PushRejected_OffByOne(ptr, n) == ptr = NullPtr \/ n > MAX_TICK_STACK

\* line 38: !ptr || tick_count >= MAX_TICK_STACK
PushRejected(ptr, n) == ptr = NullPtr \/ n >= MAX_TICK_STACK

tick_push_CountsFailed(ptr, size, ref_count) ==
    /\ ~crashed
    /\ IF PushRejected(ptr, tick_count)
       THEN /\ last_report' = "FREE_ALL Error: Null ptr or tick stack full"
            /\ UNCHANGED <<tick_stack, tick_count, npushes, last_ptr>>
       ELSE \E malloc_ok \in BOOLEAN :
              IF ~malloc_ok
              THEN /\ last_report' = "FREE_ALL Error: Memory allocation failed for tick"
                   /\ tick_count' = tick_count + 1
                   /\ UNCHANGED <<tick_stack, npushes, last_ptr>>
              ELSE /\ tick_stack' = InsertByPriority(tick_stack,
                                      [ptr |-> ptr, size |-> size, ref_count |-> ref_count,
                                       fuzzy_score |-> TickScore(size, ref_count, tick_count)])
                   /\ tick_count' = tick_count + 1
                   /\ npushes' = npushes + 1
                   /\ last_ptr' = ptr
                   /\ last_report' = ""
    /\ hp_sweeps' = 0
    /\ UNCHANGED <<released, crashed, nsweeps>>
    /\ UNCHANGED fieldVars

tick_push(ptr, size, ref_count) ==
    /\ ~crashed
    /\ IF PushRejected(ptr, tick_count)
       THEN /\ last_report' = "FREE_ALL Error: Null ptr or tick stack full"
            /\ UNCHANGED <<tick_stack, tick_count, npushes, last_ptr>>
       ELSE \E malloc_ok \in BOOLEAN :
              IF ~malloc_ok
              THEN /\ last_report' = "FREE_ALL Error: Memory allocation failed for tick"
                   /\ UNCHANGED <<tick_stack, tick_count, npushes, last_ptr>>
              ELSE /\ tick_stack' = InsertByPriority(tick_stack,
                                      [ptr |-> ptr, size |-> size, ref_count |-> ref_count,
                                       fuzzy_score |-> TickScore(size, ref_count, tick_count)])
                   /\ tick_count' = tick_count + 1
                   /\ npushes' = npushes + 1
                   /\ last_ptr' = ptr
                   /\ last_report' = ""
    /\ hp_sweeps' = 0
    /\ UNCHANGED <<released, crashed, nsweeps>>
    /\ UNCHANGED fieldVars

tick_cascade ==
    /\ ~crashed
    /\ CascadeEffect
    /\ hp_sweeps' = 0
    /\ UNCHANGED <<npushes, last_ptr>>
    /\ UNCHANGED fieldVars

ShouldCascade_Inverted(pressure) == pressure < MEMORY_PRESSURE_THRESHOLD

\* line 187: monitor_memory_pressure() > MEMORY_PRESSURE_THRESHOLD
ShouldCascade(pressure) == pressure > MEMORY_PRESSURE_THRESHOLD

free_all_tickstack ==
    /\ ~crashed
    /\ IF ShouldCascade(monitor_memory_pressure(tick_count))
       THEN CascadeEffect
       ELSE /\ last_report' = "FREE_ALL: Low memory pressure, deferring cascade"
            /\ UNCHANGED <<tick_stack, tick_count, released, crashed, nsweeps>>
    /\ hp_sweeps' = IF hp_sweeps > 0 THEN 2
                    ELSE IF monitor_memory_pressure(tick_count) >= MEMORY_PRESSURE_THRESHOLD
                    THEN 1 ELSE 0
    /\ UNCHANGED <<npushes, last_ptr>>
    /\ UNCHANGED fieldVars

---------------------------------------------------------------------------
(* higgs_king.h: free_higgs_field *)

\* what one tick_push(ptr, size, ref_count) can leave of a stack with n
\* entries: the stack as it was (rejected, or the entry was not allocated), or
\* the stack with the entry linked
PushOutcomes(stack, n, ptr, size, ref_count) ==
    LET kept == [stack |-> stack, count |-> n, linked |-> FALSE]
        t == [ptr |-> ptr, size |-> size, ref_count |-> ref_count,
              fuzzy_score |-> TickScore(size, ref_count, n)]
    IN IF PushRejected(ptr, n) THEN {kept}
       ELSE {kept, [stack |-> InsertByPriority(stack, t), count |-> n + 1,
                    linked |-> TRUE]}

\* lines 234-244.  free_nested_tickstack is defined nowhere in the sources;
\* lines 239-240 read the tick stack and its name after it returns, so it is
\* taken to release neither.  free_1d (free_all.h lines 131-135) passes a
\* non-null block to tick_push with ref_count 1.
free_higgs_field ==
    /\ ~crashed
    /\ \E o1 \in PushOutcomes(tick_stack, tick_count, NamePtr, NameSize, 1) :
       \E o2 \in PushOutcomes(o1.stack, o1.count, field_tick_stack, TickStackSize, 1) :
          /\ IF ShouldCascade(monitor_memory_pressure(o2.count))
             THEN /\ released' = ReleasedAfterWalk(o2.stack)
                  /\ tick_stack' = << >>
                  /\ tick_count' = 0
                  /\ nsweeps' = nsweeps + 1
                  /\ crashed' \in IF \E h \in DOMAIN released' : released'[h] > 1
                                  THEN {TRUE, FALSE} ELSE {FALSE}
                  /\ last_report' = IF WalkWarns(o2.stack)
                                    THEN "FREE_ALL Warning: Double-free attempt" ELSE ""
             ELSE /\ tick_stack' = o2.stack
                  /\ tick_count' = o2.count
                  /\ last_report' = "FREE_ALL: Low memory pressure, deferring cascade"
                  /\ UNCHANGED <<released, crashed, nsweeps>>
          /\ npushes' = npushes + (IF o1.linked THEN 1 ELSE 0) + (IF o2.linked THEN 1 ELSE 0)
          /\ last_ptr' = IF o2.linked THEN field_tick_stack
                         ELSE IF o1.linked THEN NamePtr ELSE last_ptr
          /\ hp_sweeps' = IF monitor_memory_pressure(o2.count) >= MEMORY_PRESSURE_THRESHOLD
                          THEN 1 ELSE 0
    /\ field_tick_stack' = NullPtr
    /\ point_count' = 0
    /\ points' = << >>
    /\ literals' = << >>
    /\ delta_topology' = << >>
    /\ scenario' = "off"
    /\ UNCHANGED <<coupling_factor, nsteps, measured>>

---------------------------------------------------------------------------
(* higgs_king.h: shoot_over_higgs *)

\* &field->points[i]: the address of slot i of the array inside the field
PointsBase == 2^21
PointPtr(i) == PointsBase + i

\* sizeof(HiggsFieldPoint): 11 doubles, 3 doubles, an int and char[32],
\* padded to a multiple of 8
PointSize == 152

\* line 197: the tag compares equal and is_interacting is set
ShootMatches(p, insert_id) == p.insert_id = insert_id /\ p.is_interacting # 0

\* lines 196-204 from slot i on: every matching slot is passed to
\* shoot_over_free (free_all.h lines 199-203), which passes it to tick_push
\* with ref_count 1; `o` is the stack, the count, the number of entries linked
\* so far, the handle linked last and the report written last
RECURSIVE ShootFrom(_, _, _)
ShootFrom(o, i, insert_id) ==
    IF i > point_count THEN {o}
    ELSE IF ~ShootMatches(points[i], insert_id) THEN ShootFrom(o, i + 1, insert_id)
    ELSE UNION {ShootFrom([stack |-> oc.stack, count |-> oc.count,
                            linked |-> o.linked + (IF oc.linked THEN 1 ELSE 0),
                            last |-> IF oc.linked THEN PointPtr(i) ELSE o.last,
                            report |-> IF oc.linked THEN ""
                                       ELSE IF PushRejected(PointPtr(i), o.count)
                                       THEN "FREE_ALL Error: Null ptr or tick stack full"
                                       ELSE "FREE_ALL Error: Memory allocation failed for tick"],
                           i + 1, insert_id) :
                  oc \in PushOutcomes(o.stack, o.count, PointPtr(i), PointSize, 1)}

\* lines 191-205
shoot_over_higgs(insert_id) ==
    /\ ~crashed
    /\ IF insert_id = NullId
       THEN /\ last_report' = "Invalid input in shoot_over_higgs"
            /\ UNCHANGED <<tick_stack, tick_count, npushes, last_ptr>>
       ELSE \E o \in ShootFrom([stack |-> tick_stack, count |-> tick_count, linked |-> 0,
                                 last |-> last_ptr, report |-> ""], 1, insert_id) :
              /\ tick_stack' = o.stack
              /\ tick_count' = o.count
              /\ npushes' = npushes + o.linked
              /\ last_ptr' = o.last
              /\ last_report' = o.report
    /\ hp_sweeps' = 0
    /\ UNCHANGED <<released, crashed, nsweeps>>
    /\ UNCHANGED fieldVars

---------------------------------------------------------------------------
(* The registry under small inputs *)

MaxPoints == 3
MaxSteps == 1

NaNVec == [i \in Dims |-> IF i = 1 THEN NaN ELSE 0]
Q == [i \in Dims |-> IF i = 1 THEN 11 ELSE 0]

CoordSet == {P1, P2, Q, NaNVec}
MassSet == {-One, One, 2 * One}
IdSet == {NullId, "", "point1"}

Init ==
    /\ points = << >>
    /\ point_count = 0
    /\ coupling_factor = HIGGS_COUPLING_BASE
    /\ literals = << >>
    /\ delta_topology = << >>
    /\ tick_stack = << >>
    /\ tick_count = 0
    /\ released = [h \in {} |-> 0]
    /\ crashed = FALSE
    /\ last_report = ""
    /\ nsteps = 0
    /\ npushes = 0
    /\ nsweeps = 0
    /\ scenario = "start"
    /\ last_ptr = NullPtr
    /\ hp_sweeps = 0
    /\ measured = << >>
    /\ field_tick_stack = TickStackPtr

AddPoint ==
    /\ point_count < MaxPoints
    /\ \E coords \in CoordSet, mass \in MassSet, id \in IdSet :
          add_higgs_point(coords, mass, id)

Step ==
    /\ nsteps < MaxSteps
    /\ higgs_interaction

Next == AddPoint \/ Step

Spec == Init /\ [][Next]_vars


---------------------------------------------------------------------------
(* The registry filled to capacity: the tag set or null, masses 1.0 and 2.0 *)
(* in turn, positions P1, P2, P2 in turn or of NaN magnitude, no            *)
(* interaction                                                              *)

AddToCapacity ==
    \E coords \in {IF point_count % 3 = 0 THEN P1 ELSE P2, NaNVec},
       id \in {NullId, "point1"} :
        add_higgs_point(coords, IF point_count % 2 = 0 THEN One ELSE 2 * One, id)

NextCapacity == AddToCapacity

SpecCapacity == Init /\ [][NextCapacity]_vars

---------------------------------------------------------------------------
(* The stability metric queried between inserts and steps *)

ProbeAdd ==
    /\ point_count < MaxPoints
    /\ \E coords \in {P1, P2, Q}, mass \in {One, 2 * One} :
          add_higgs_point(coords, mass, "point1")

Measure == stability_query

NextStability == ProbeAdd \/ Step \/ Measure

SpecStability == Init /\ [][NextStability]_vars

---------------------------------------------------------------------------
(* Repeated steps on a small registry: energies grow until a product leaves *)
(* the range of the doubles                                                 *)

MaxGrowthSteps == 3

GrowthAdd ==
    /\ point_count < MaxPoints
    /\ \E coords \in {P1, P2}, mass \in {One, 2 * One} :
          add_higgs_point(coords, mass, "point1")

GrowthStep ==
    /\ nsteps < MaxGrowthSteps
    /\ higgs_interaction

NextGrowth == GrowthAdd \/ GrowthStep

SpecGrowth == Init /\ [][NextGrowth]_vars

---------------------------------------------------------------------------
(* Inserts whose raw fuzzy minimum falls on, above and below the confidence *)
(* threshold (masses 1.0, 1.4 and 2.0), with steps in between               *)

PriorityAdd ==
    /\ point_count < MaxPoints
    /\ \E coords \in {P1, Q}, mass \in {One, (7 * One) \div 5, 2 * One} :
          add_higgs_point(coords, mass, "point1")

NextPriority == PriorityAdd \/ Step

SpecPriority == Init /\ [][NextPriority]_vars

---------------------------------------------------------------------------
(* Properties of the registry *)

\* C1: after every call, accepted or rejected insert or step, the priorities
\* of the stored points read in index order are non-increasing.
SortedByPriority ==
    \A i \in 1..(point_count - 1) :
        points[i].fuzzy_score >= points[i + 1].fuzzy_score

\* C1 witness: three stored points, a step taken, and the point inserted last
\* (its coordinates differ from the earlier two) has been walked to the front.
SortedAfterSwaps ==
    /\ point_count = 3
    /\ nsteps = 1
    /\ points[1].field = literals[3]
    /\ literals[3] # literals[1]
    /\ literals[3] # literals[2]
    /\ points[1].fuzzy_score > points[2].fuzzy_score

\* C2: the priority of every stored point lies in [0,1].
PriorityInUnitInterval ==
    \A i \in 1..point_count :
        /\ points[i].fuzzy_score >= 0
        /\ points[i].fuzzy_score <= One

E0 == FMul(vector_magnitude(P1), HIGGS_ENERGY_FACTOR)

Scaled(p, energy0, mass0) ==
    /\ p.energy = FMul(energy0, One + FMul(coupling_factor, delta_topology[1].magnitude))
    /\ p.mass = FMul(mass0, One + FMul(coupling_factor, delta_topology[1].harmonic_factor))

\* C8 as stated: after main()'s two inserts and one step, both points' energies
\* and masses have been multiplied by the anchor's factors.
ScenarioBothScaled ==
    scenario = "stepped" =>
        \A i \in 1..point_count :
            Scaled(points[i], E0, IF points[i].field = P1 THEN One ELSE 2 * One)

\* C8 amended: after main()'s two inserts and one step, the point inserted with
\* mass 2.0 (priority 1.0) has energy and mass multiplied by the anchor's
\* factors, and the point inserted with mass 1.0 (priority 0.4, below the
\* threshold) keeps the energy and mass it was inserted with.
ScenarioOnlyHighPriorityScaled ==
    scenario = "stepped" =>
        /\ point_count = 2
        /\ points[1].field = P2 /\ points[1].fuzzy_score = One
        /\ Scaled(points[1], E0, 2 * One)
        /\ points[1].energy # E0
        /\ points[2].field = P1 /\ points[2].fuzzy_score = FMul(Half, 8000)
        /\ points[2].energy = E0 /\ points[2].mass = One

\* C8 witness: main()'s sequence has run through its step.
ScenarioStepped == scenario = "stepped"

\* C9: a step that passes its guard sets coupling_factor to BaseCoupling times
\* the stability of the energies before the step, multiplies energy and mass
\* of exactly the points with priority >= 0.7 by the factors of the anchor
\* (record 0 of the topology the step recomputed), and leaves the energy and
\* mass of every other point unchanged.
StepUpdatesHighPriorityOnly ==
    [][nsteps' = nsteps + 1 =>
        LET cf == FMul(HIGGS_COUPLING_BASE, monitor_field_stability(points))
            anchor == delta_topology'[1]
        IN /\ Len(delta_topology') >= 1
           /\ coupling_factor' = cf
           /\ \A i \in 1..point_count :
                IF points[i].fuzzy_score >= FUZZY_CONFIDENCE_THRESHOLD
                THEN /\ points'[i].energy =
                            FMul(points[i].energy, One + FMul(cf, anchor.magnitude))
                     /\ points'[i].mass =
                            FMul(points[i].mass, One + FMul(cf, anchor.harmonic_factor))
                ELSE /\ points'[i].energy = points[i].energy
                     /\ points'[i].mass = points[i].mass]_vars

\* C9 witness: a step was taken on an unstable registry (coupling 0.0625) that
\* holds a participating point, whose energy grew, and a skipped one.
SteppedUnderInstability ==
    /\ nsteps = 1
    /\ coupling_factor = FMul(HIGGS_COUPLING_BASE, Half)
    /\ \E i, j \in 1..point_count :
          /\ points[i].fuzzy_score >= FUZZY_CONFIDENCE_THRESHOLD
          /\ points[i].energy > FMul(vector_magnitude(points[i].field), HIGGS_ENERGY_FACTOR)
          /\ points[j].fuzzy_score < FUZZY_CONFIDENCE_THRESHOLD

PriorityFixedAtInsertion ==
    \A i \in 1..point_count :
        points[i].fuzzy_score = points[i].inserted_score

\* C11 witness: a stored point whose energy and mass a step has changed, in a
\* registry whose stability has changed since, so that computing its priority
\* now would give another value than the one it holds.
PriorityOutdated ==
    /\ nsteps = 1
    /\ \E i \in 1..point_count :
          /\ points[i].energy # FMul(vector_magnitude(points[i].field), HIGGS_ENERGY_FACTOR)
          /\ points[i].inserted_at < point_count
          /\ fuzzy_score_point(points[i], points) # points[i].fuzzy_score

\* C12: a step does not re-sort the registry: it leaves the count unchanged
\* and every point at its index with its position, tag, interacting flag and
\* priority; of a stored point it changes at most energy and mass.
StepKeepsPlacement ==
    [][higgs_interaction =>
          /\ point_count' = point_count
          /\ Len(points') = Len(points)
          /\ \A i \in 1..point_count :
                points'[i] = [points[i] EXCEPT !.energy = points'[i].energy,
                                               !.mass = points'[i].mass]]_vars

\* C12 witness: a step has changed the energy of a point in a registry of
\* three whose index order is not the order of insertion.
SteppedInPlace ==
    /\ nsteps = 1
    /\ point_count = 3
    /\ \E i \in 1..point_count :
          points[i].energy # FMul(vector_magnitude(points[i].field), HIGGS_ENERGY_FACTOR)
    /\ \E i, j \in 1..point_count :
          i < j /\ points[i].inserted_at > points[j].inserted_at

RECURSIVE MinEnergy(_, _)
MinEnergy(pts, n) ==
    IF n = 1 THEN pts[1].energy
    ELSE LET m == MinEnergy(pts, n - 1)
         IN IF pts[n].energy < m THEN pts[n].energy ELSE m

RECURSIVE SumOver(_, _)
SumOver(f, n) == IF n = 0 THEN 0 ELSE f[n] + SumOver(f, n - 1)

\* the population variance of the energies is below FIELD_STABILITY_THRESHOLD,
\* computed exactly on the offsets from the least energy; one offset of 0.1
\* or more puts the variance above 0.01 / (2 * Len(pts))
VarianceBelowTolerance(pts) ==
    LET n == Len(pts)
        d == [i \in 1..n |-> pts[i].energy - MinEnergy(pts, n)]
    IN IF n = 0 THEN TRUE
       ELSE IF \E i \in 1..n : d[i] >= 1000 THEN FALSE
       ELSE n * SumOver([i \in 1..n |-> d[i] * d[i]], n) - SumOver(d, n) * SumOver(d, n)
                < FIELD_STABILITY_THRESHOLD * n * n

\* C15: monitor_field_stability returns 1.0 when the population variance of
\* the stored energies is below 1e-6 (an empty and a one-point registry
\* included) and 0.5 otherwise, never another value; an insert that adds an
\* outlier energy to a registry of equal energies moves it from 1.0 to 0.5.
StabilityTwoLevel ==
    /\ [](\A k \in 1..Len(measured) : measured[k] \in {One, Half})
    /\ [][stability_query =>
            measured' = <<IF VarianceBelowTolerance(points) THEN One ELSE Half>>]_vars
    /\ [][(/\ point_count' = point_count + 1
            /\ point_count >= 1
            /\ \A i \in 1..point_count : points[i].energy = points[1].energy
            /\ \E j \in 1..point_count' :
                  /\ points'[j].inserted_at = point_count'
                  /\ Abs(points'[j].energy - points[1].energy) >= 1000)
           => /\ monitor_field_stability(points) = One
              /\ monitor_field_stability(points') = Half]_vars

\* C15 witness: the metric was queried and returned 0.5 on a registry of
\* three points, untouched by any step, whose last insert added an outlier
\* energy to two equal ones.
MeasuredAfterOutlier ==
    /\ measured = <<Half>>
    /\ point_count = 3
    /\ nsteps = 0
    /\ \E i, j, k \in 1..point_count :
          /\ points[k].inserted_at = 3
          /\ i # j /\ i # k /\ j # k
          /\ points[i].energy = points[j].energy
          /\ points[k].energy # points[i].energy
          /\ monitor_field_stability(<<points[i], points[j]>>) = One

\* C16: fewer than 2 literals exist exactly when fewer than 2 points are
\* stored, and a step taken then is a no-op: no point changes, the order, the
\* count, coupling_factor and the topology stay as they were, and the step
\* reports insufficient data.
FewLiteralsNoOp ==
    /\ [](Len(literals) < 2 <=> point_count < 2)
    /\ [][(higgs_interaction /\ Len(literals) < 2) =>
            /\ UNCHANGED <<points, point_count, coupling_factor, delta_topology>>
            /\ last_report' =
                  "Invalid field or insufficient points in higgs_interaction"]_vars

\* C16 witness: a step was refused on a registry holding one point and one
\* literal.
SteppedWithOneLiteral ==
    /\ last_report = "Invalid field or insufficient points in higgs_interaction"
    /\ point_count = 1
    /\ Len(literals) = 1
    /\ nsteps = 0

\* C18: when, during a step, the energy update or the mass update of a
\* participating point produces NaN or Inf, that point keeps the energy and
\* the mass it had before the step.
UnstableUpdateSkipped ==
    [][(nsteps' = nsteps + 1 /\ Len(delta_topology') >= 1) =>
          LET anchor == delta_topology'[1]
              cf == coupling_factor'
          IN \A i \in 1..point_count :
                (/\ points[i].fuzzy_score >= FUZZY_CONFIDENCE_THRESHOLD
                 /\ \/ NotFinite(DMul(points[i].energy, One + FMul(cf, anchor.magnitude)))
                    \/ NotFinite(DMul(points[i].mass, One + FMul(cf, anchor.harmonic_factor))))
                => /\ points'[i].energy = points[i].energy
                   /\ points'[i].mass = points[i].mass]_vars

\* C19: two stored points with equal priority appear in the order in which
\* they were inserted, after any sequence of inserts and steps.
TiesKeepInsertionOrder ==
    \A i, j \in 1..point_count :
        (i < j /\ points[i].fuzzy_score = points[j].fuzzy_score)
            => points[i].inserted_at < points[j].inserted_at

\* C19 witness: after a step, two points of equal priority at different
\* positions sit at indexes 2 and 3 in their order of insertion, behind a
\* point that was inserted after both and walked past them.
TieBehindLaterInsert ==
    /\ nsteps = 1
    /\ point_count = 3
    /\ points[1].inserted_at = 3
    /\ points[2].inserted_at = 1
    /\ points[3].inserted_at = 2
    /\ points[2].fuzzy_score = points[3].fuzzy_score
    /\ points[2].field # points[3].field

\* the least of three numbers
Min3(a, b, c) ==
    LET ab == IF a < b THEN a ELSE b
    IN IF ab < c THEN ab ELSE c

\* C21: the priority an accepted insert stores is d(min(energy / (0.618 * 11),
\* mass / 2, s)), with d(x) = x for x > 0.7 and 0.8 * x otherwise, and s the
\* stability of the registry with the new point counted among the stored.
InsertPriorityFormula ==
    [][point_count' = point_count + 1 =>
          \E j \in 1..point_count' :
              /\ points'[j].inserted_at = point_count'
              /\ LET p == points'[j]
                     s == monitor_field_stability(points')
                     raw == Min3(FDiv(p.energy, HIGGS_ENERGY_FACTOR * HIGGS_FIELD_DIM),
                                 FDiv(p.mass, 2 * Scale), s)
                 IN p.fuzzy_score = IF raw > FUZZY_CONFIDENCE_THRESHOLD
                                    THEN raw ELSE (raw * 8) \div 10]_vars

\* C21 witness: the registry holds a point whose raw minimum was exactly 0.7
\* (mass 1.4 in a stable registry), stored as 0.56, and a point inserted as an
\* outlier, whose own energy made the stability 0.5 and its priority 0.4.
ThresholdAndOutlierStored ==
    /\ nsteps = 0
    /\ \E i, j \in 1..point_count :
          /\ points[i].mass = (7 * One) \div 5
          /\ points[i].fuzzy_score = 5600
          /\ points[j].mass = 2 * One
          /\ points[j].inserted_at = point_count
          /\ points[j].fuzzy_score = 4000
          /\ monitor_field_stability(<<points[i]>>) = One

\* C22: literal k is the position of the k-th accepted insert and the first
\* two literals never change once pushed; every step that passes its guard
\* leaves as record 0 the delta of those two positions and scales every
\* participating point by that record's factors, whatever was inserted or
\* swapped since and however many steps were taken before.
AnchorIsFirstPair ==
    /\ [](\A i \in 1..point_count :
            /\ points[i].inserted_at <= Len(literals)
            /\ literals[points[i].inserted_at] = points[i].field)
    /\ [][Len(literals) >= 2 =>
            literals'[1] = literals[1] /\ literals'[2] = literals[2]]_vars
    /\ [][nsteps' = nsteps + 1 =>
            LET anchor == DeltaRecord(literals[2], literals[1])
                cf == coupling_factor'
            IN /\ delta_topology'[1] = anchor
               /\ \A i \in 1..point_count :
                     points[i].fuzzy_score >= FUZZY_CONFIDENCE_THRESHOLD =>
                        /\ points'[i].energy =
                              DMul(points[i].energy, One + FMul(cf, anchor.magnitude))
                        /\ points'[i].mass =
                              DMul(points[i].mass, One + FMul(cf, anchor.harmonic_factor))]_vars

\* C22 witness: two steps were taken on three points; the topology holds a
\* second record that differs from record 0, the point inserted first no
\* longer sits at index 0, and a point has grown by the anchor's factor twice.
AnchorAfterInsertsAndSwaps ==
    /\ nsteps = 2
    /\ point_count = 3
    /\ Len(delta_topology) = 2
    /\ delta_topology[2].magnitude # delta_topology[1].magnitude
    /\ delta_topology[1].magnitude > 0
    /\ points[1].inserted_at # 1
    /\ \E i \in 1..point_count :
          points[i].energy > 4 * FMul(vector_magnitude(points[i].field), HIGGS_ENERGY_FACTOR)

\* C23: an insert that ends in either error report leaves the count, the
\* stored points and their order, and the literal sequence as they were;
\* every other insert adds exactly one point, so the literals held are one
\* per accepted insert up to the sequence's capacity.
RejectedInsertNoEffect ==
    /\ [](/\ Len(points) = point_count
          /\ Len(literals) = IF point_count < TICKSTACK_SIZE
                             THEN point_count ELSE TICKSTACK_SIZE)
    /\ [][IF last_report' \in {"Invalid input in add_higgs_point",
                               "Invalid magnitude in add_higgs_point"}
          THEN UNCHANGED <<points, point_count, literals>>
          ELSE point_count' = point_count + 1]_vars

\* C23 witness: a position of NaN magnitude was rejected after two accepted
\* inserts.
NaNRejectedAfterTwo ==
    /\ last_report = "Invalid magnitude in add_higgs_point"
    /\ point_count = 2
    /\ literals = <<P1, P2>>
    /\ {points[i].field : i \in 1..2} = {P1, P2}

\* C25: the literal sequence never holds more than 50 positions; an accepted
\* insert into a registry of 50 or more points leaves the sequence, and with
\* it the pair of positions behind the anchor, exactly as it was.
LiteralsCapped ==
    /\ [](Len(literals) <= TICKSTACK_SIZE)
    /\ [][point_count >= TICKSTACK_SIZE /\ point_count' = point_count + 1 =>
            /\ Len(points') = point_count'
            /\ literals' = literals
            /\ DeltaRecord(literals'[2], literals'[1])
                  = DeltaRecord(literals[2], literals[1])]_vars

\* C25 witness: the registry holds 100 accepted points, the last one at a
\* position pushed after the sequence was full, and the sequence still holds
\* the first 50 positions.
HundredPointsFiftyLiterals ==
    /\ point_count = HIGGS_FIELD_SIZE
    /\ last_report = ""
    /\ Len(literals) = TICKSTACK_SIZE
    /\ literals[1] = P1 /\ literals[2] = P2 /\ literals[TICKSTACK_SIZE] = P2
    /\ \E i \in 1..point_count :
          points[i].inserted_at = HIGGS_FIELD_SIZE /\ points[i].field = P1

\* C26: every stored priority is above 0.7 or at most 0.56; a step changes
\* the energy or mass only of points whose priority at insertion was above
\* 0.7 (the raw minimum is above 0.7 exactly then); a point inserted while
\* the stability, new point included, is 0.5 gets a priority of at most 0.4,
\* and no step changes a point with such a priority.
OnlyConfidentPointsChange ==
    /\ [](\A i \in 1..point_count :
            /\ points[i].fuzzy_score = points[i].inserted_score
            /\ \/ points[i].fuzzy_score > FUZZY_CONFIDENCE_THRESHOLD
               \/ points[i].fuzzy_score <= 5600)
    /\ [][nsteps' = nsteps + 1 =>
            \A i \in 1..point_count :
                points[i].inserted_score <= FUZZY_CONFIDENCE_THRESHOLD =>
                    points'[i] = points[i]]_vars
    /\ [][point_count' = point_count + 1 /\ monitor_field_stability(points') = Half =>
            \A j \in 1..point_count' :
                points'[j].inserted_at = point_count' => points'[j].fuzzy_score <= 4000]_vars

\* C26 witness: after a step, a point inserted under stability 0.5 with
\* priority 0.4 still has its insertion energy and mass, while a point of
\* priority above 0.7 has grown.
UnstableInsertUntouched ==
    /\ nsteps = 1
    /\ \E i, j \in 1..point_count :
          /\ points[i].fuzzy_score = 4000
          /\ points[i].inserted_at = 2
          /\ points[i].mass = 2 * One
          /\ points[i].energy = FMul(vector_magnitude(points[i].field), HIGGS_ENERGY_FACTOR)
          /\ points[j].fuzzy_score > FUZZY_CONFIDENCE_THRESHOLD
          /\ points[j].energy > FMul(vector_magnitude(points[j].field), HIGGS_ENERGY_FACTOR)

\* C7: the count never exceeds 100, and an insert attempted at count 100
\* leaves the stored points and the count as they were.
CapacityEnforced ==
    /\ [](point_count <= HIGGS_FIELD_SIZE /\ Len(points) = point_count)
    /\ [][point_count = HIGGS_FIELD_SIZE =>
            /\ UNCHANGED <<points, point_count>>
            /\ last_report' = "Invalid input in add_higgs_point"]_vars

\* C7 witness: the registry holds 100 points and the last insert was rejected.
RejectedAtCapacity ==
    /\ point_count = HIGGS_FIELD_SIZE
    /\ Len(points) = HIGGS_FIELD_SIZE
    /\ last_report = "Invalid input in add_higgs_point"

---------------------------------------------------------------------------
(* The reclamation stack under small inputs *)

MaxPushes == 3
MaxSweeps == 2
MaxHandle == 2

Submit ==
    /\ npushes < MaxPushes
    /\ \E ptr \in 0..MaxHandle, size \in {100, 2048}, ref_count \in {1, 2} :
          tick_push(ptr, size, ref_count)

Sweep ==
    /\ nsweeps < MaxSweeps
    /\ tick_cascade

FreeAll == free_all_tickstack

NextTick == Submit \/ Sweep \/ FreeAll

SpecTick == Init /\ [][NextTick]_vars

---------------------------------------------------------------------------
(* The reclamation stack filled to MAX_TICK_STACK: every submit passes a    *)
(* handle not submitted before, or the null handle                          *)

SubmitFresh == tick_push(npushes + 1, 2048, 2)

SubmitNull == tick_push(NullPtr, 2048, 2)

NextPressure == SubmitFresh \/ SubmitNull \/ FreeAll

SpecPressure == Init /\ [][NextPressure]_vars

---------------------------------------------------------------------------
(* The reclamation stack around the pressure switch: a few submits of any   *)
(* kind and one sweep, then Brim small entries that bring tick_count just   *)
(* below MAX_TICK_STACK * 0.9, then submits of any kind across the switch   *)

Brim == 920
MaxMixed == 4

SubmitMixed ==
    /\ IF nsweeps = 0 THEN npushes < MaxMixed
       ELSE tick_count >= Brim /\ tick_count < Brim + MaxMixed
    /\ \E size \in {100, 2048}, ref_count \in {1, 2} :
          tick_push(npushes + 1, size, ref_count)

SweepEarly ==
    /\ nsweeps = 0
    /\ tick_cascade

FillTo ==
    /\ nsweeps = 1
    /\ tick_count < Brim
    /\ tick_push(npushes + 1, 100, 1)

NextBrim == SubmitMixed \/ SweepEarly \/ FillTo \/ FreeAll

SpecBrim == Init /\ [][NextBrim]_vars

---------------------------------------------------------------------------
(* A field that is used and then freed; the field is not used after         *)
(* free_higgs_field, the reclamation stack is                               *)

LiveAdd ==
    /\ field_tick_stack # NullPtr
    /\ point_count < MaxPoints
    /\ \E coords \in {P1, P2}, mass \in {One, 2 * One} :
          add_higgs_point(coords, mass, "point1")

LiveStep ==
    /\ field_tick_stack # NullPtr
    /\ nsteps < MaxSteps
    /\ higgs_interaction

Teardown ==
    /\ field_tick_stack # NullPtr
    /\ free_higgs_field

NextTeardown == LiveAdd \/ LiveStep \/ Teardown \/ FreeAll \/ Sweep

SpecTeardown == Init /\ [][NextTeardown]_vars

---------------------------------------------------------------------------
(* Stored points queued by tag, next to one handle submitted repeatedly *)

MaxQueued == 4

TaggedAdd ==
    /\ point_count < MaxPoints
    /\ \E id \in {"point1", "point2"} : add_higgs_point(P1, One, id)

Shoot ==
    /\ tick_count + point_count <= MaxQueued
    /\ \E id \in {NullId, "point1", "point2"} : shoot_over_higgs(id)

SubmitAgain ==
    /\ tick_count < MaxQueued
    /\ tick_push(1, 2048, 2)

NextShoot == TaggedAdd \/ Shoot \/ SubmitAgain

SpecShoot == Init /\ [][NextShoot]_vars

---------------------------------------------------------------------------
(* Properties of the reclamation stack *)

\* C13: in every reachable state the entries of the reclamation stack, read
\* head to tail, have non-increasing score, also when their scores were
\* computed under different pressure.
TickSortedByScore ==
    \A i \in 1..(Len(tick_stack) - 1) :
        tick_stack[i].fuzzy_score >= tick_stack[i + 1].fuzzy_score

\* C13 witness: after a sweep and a refill, the stack holds two entries of the
\* same size and reference count, the one scored under high pressure (0.7)
\* ahead of the one scored under low pressure (0.4), and a lower score behind.
SortedAcrossPressure ==
    /\ nsweeps = 1
    /\ tick_count > Brim + 2
    /\ \E i, j \in 1..MaxMixed :
          /\ i < j
          /\ tick_stack[i].size = tick_stack[j].size
          /\ tick_stack[i].ref_count = tick_stack[j].ref_count
          /\ tick_stack[i].fuzzy_score = FUZZY_CONFIDENCE_THRESHOLD
          /\ tick_stack[j].fuzzy_score = FMul(Half, 8000)
          /\ tick_stack[Len(tick_stack)].fuzzy_score < tick_stack[j].fuzzy_score

\* C14: the count of the reclamation stack never exceeds 1024, and a submit
\* that is rejected (the stack holds 1024 entries, the handle is null, or the
\* entry cannot be allocated) leaves the entries, their order and the count
\* unchanged and releases no handle.
TickCapacityEnforced ==
    /\ [](tick_count <= MAX_TICK_STACK)
    /\ [][((SubmitFresh /\ tick_count = MAX_TICK_STACK)
            \/ SubmitNull
            \/ last_report' = "FREE_ALL Error: Memory allocation failed for tick")
           => /\ UNCHANGED <<tick_stack, tick_count, released>>
              /\ last_report' # ""]_vars

\* C14 witness: the stack holds 1024 entries, the last submit was rejected
\* with the null-or-full diagnostic, and no handle has been released.
RejectedAtMaxEntries ==
    /\ tick_count = MAX_TICK_STACK
    /\ Len(tick_stack) = MAX_TICK_STACK
    /\ last_report = "FREE_ALL Error: Null ptr or tick stack full"
    /\ DOMAIN released = {}

\* C17: the score a submit stores is the registry's dampening (line 139 of
\* higgs_king.h) of the raw fuzzy-AND value of the submitted entry, for every
\* raw value, the threshold 0.7 itself included.
SameDampening ==
    [][npushes' = npushes + 1 =>
          \E i \in 1..Len(tick_stack') :
              /\ tick_stack'[i].ptr = last_ptr'
              /\ tick_stack'[i].fuzzy_score =
                    Dampen(fuzzy_score_ptr(tick_stack'[i].size,
                                           tick_stack'[i].ref_count, tick_count))]_vars

\* C20: once free_higgs_field has returned, the tick stack and its name
\* buffer have each been released exactly once, point_count is 0 and
\* field->tick_stack is null.
FieldFreedAfterTeardown ==
    field_tick_stack = NullPtr =>
        /\ ReleaseCount(TickStackPtr) = 1
        /\ ReleaseCount(NamePtr) = 1
        /\ point_count = 0

CountMatchesEntries ==
    /\ [](tick_count = Len(tick_stack))
    /\ [][IF nsweeps' = nsweeps + 1
          THEN tick_count' = 0 /\ Len(tick_stack') = 0
          ELSE IF npushes' = npushes + 1
          THEN /\ tick_count' = tick_count + 1
               /\ Len(tick_stack') = Len(tick_stack) + 1
               /\ last_report' = ""
          ELSE tick_count' = tick_count /\ tick_stack' = tick_stack]_vars

\* C27 witness: after a sweep two entries were linked and a further submit
\* failed to allocate its entry.
FailedSubmitAfterTwo ==
    /\ nsweeps = 1
    /\ tick_count = 2
    /\ Len(tick_stack) = 2
    /\ last_report = "FREE_ALL Error: Memory allocation failed for tick"

\* C28: every stored score lies in [0, 0.7]; an entry linked while the count
\* is at most 0.9 * MAX_TICK_STACK (pressure 0.5) has a score of at most 0.4;
\* a score of exactly 0.7 belongs only to an entry with ref_count > 1 that was
\* linked while the count was above 0.9 * MAX_TICK_STACK.
TickScoreRange ==
    /\ [](\A i \in 1..Len(tick_stack) :
            /\ tick_stack[i].fuzzy_score >= 0
            /\ tick_stack[i].fuzzy_score <= FUZZY_CONFIDENCE_THRESHOLD
            /\ tick_stack[i].fuzzy_score = FUZZY_CONFIDENCE_THRESHOLD =>
                  tick_stack[i].ref_count > 1)
    /\ [][npushes' = npushes + 1 =>
            \A i \in 1..Len(tick_stack') :
                tick_stack'[i].ptr = last_ptr' =>
                    LET low == tick_count * Scale <= MAX_TICK_STACK * MEMORY_PRESSURE_THRESHOLD
                        sc == tick_stack'[i].fuzzy_score
                    IN /\ low => sc <= 4000
                       /\ sc = FUZZY_CONFIDENCE_THRESHOLD => ~low]_vars

\* C28 witness: the entry linked last, at a count above 0.9 * MAX_TICK_STACK
\* and with ref_count 2, is scored exactly 0.7, and an entry of the same size
\* and ref_count, linked under low pressure, is scored 0.4.
ThresholdScoreUnderPressure ==
    /\ tick_count * Scale > (MAX_TICK_STACK * MEMORY_PRESSURE_THRESHOLD) + Scale
    /\ \E i, j \in 1..MaxMixed :
          /\ tick_stack[i].ptr = last_ptr
          /\ tick_stack[i].fuzzy_score = FUZZY_CONFIDENCE_THRESHOLD
          /\ tick_stack[i].ref_count = 2
          /\ tick_stack[j].size = tick_stack[i].size
          /\ tick_stack[j].ref_count = 2
          /\ tick_stack[j].fuzzy_score = 4000

\* C29: a submit links its entry at one position k of the stack, the other
\* entries keeping their order, with no entry of strictly lower score in
\* front of it; if the head had the same score the entry is second, directly
\* behind the head, and otherwise no entry of equal score is in front of it.
TiePlacement ==
    [][npushes' = npushes + 1 =>
          \E k \in 1..Len(tick_stack') :
              LET t == tick_stack'[k]
              IN /\ tick_stack' = InsertAt(tick_stack, t, k - 1)
                 /\ t.fuzzy_score = TickScore(t.size, t.ref_count, tick_count)
                 /\ \A i \in 1..(k - 1) : tick_stack'[i].fuzzy_score >= t.fuzzy_score
                 /\ IF Len(tick_stack) > 0 /\ tick_stack[1].fuzzy_score = t.fuzzy_score
                    THEN k = 2
                    ELSE \A i \in 1..(k - 1) :
                            tick_stack'[i].fuzzy_score > t.fuzzy_score]_vars

\* C29 witness: three entries of one score were submitted in turn (handle 1
\* with ref_count 1, handle 1 with ref_count 2, handle 2); the one submitted
\* last sits directly behind the head, ahead of the one submitted second.
TieBehindHead ==
    /\ tick_count = 3
    /\ nsweeps = 0
    /\ \A i \in 1..3 : tick_stack[i].fuzzy_score = tick_stack[1].fuzzy_score
    /\ tick_stack[1].ptr = 1 /\ tick_stack[1].ref_count = 1
    /\ tick_stack[2].ptr = 2 /\ last_ptr = 2
    /\ tick_stack[3].ptr = 1 /\ tick_stack[3].ref_count = 2

EntriesHolding(stack, h) == Cardinality({i \in 1..Len(stack) : stack[i].ptr = h})

TaggedSlots(id) == {i \in 1..point_count : ShootMatches(points[i], id)}

\* C30: a submit that links an entry adds one entry holding its handle
\* however many entries hold that handle already; a shoot_over_higgs call adds
\* at most one entry per slot whose point carries the tag and none for any
\* other slot, and exactly one per such slot when every one of its submits
\* links its entry, whatever the stack holds for those slots already.
NoDuplicateDetection ==
    /\ [][npushes' = npushes + 1 /\ last_ptr' = 1 =>
            EntriesHolding(tick_stack', 1) = EntriesHolding(tick_stack, 1) + 1]_vars
    /\ [][npushes' > npushes /\ last_ptr' > PointsBase =>
            \E id \in {"point1", "point2"} :
                /\ \A i \in 1..point_count :
                      LET added == EntriesHolding(tick_stack', PointPtr(i))
                                   - EntriesHolding(tick_stack, PointPtr(i))
                      IN IF i \in TaggedSlots(id) THEN added \in {0, 1} ELSE added = 0
                /\ tick_count' - tick_count = npushes' - npushes
                /\ npushes' - npushes = Cardinality(TaggedSlots(id)) =>
                      \A i \in TaggedSlots(id) :
                          EntriesHolding(tick_stack', PointPtr(i))
                             = EntriesHolding(tick_stack, PointPtr(i)) + 1]_vars

\* C30 witness: two calls for one tag carried by two stored points have left
\* two entries for each of the two slots.
SlotsQueuedTwice ==
    /\ point_count = 2
    /\ tick_count = 4
    /\ EntriesHolding(tick_stack, PointPtr(1)) = 2
    /\ EntriesHolding(tick_stack, PointPtr(2)) = 2
    /\ points[1].insert_id = points[2].insert_id

\* C3: no handle is passed to free() more than once.
NoDoubleRelease == \A h \in DOMAIN released : released[h] <= 1

\* C4: a free_all_tickstack call made while monitor_memory_pressure() returns
\* its high value does not defer: every handle in the stack is released and
\* the call ends with an empty stack and count 0.
HighPressureCascades ==
    [][(free_all_tickstack /\ monitor_memory_pressure(tick_count) = 9000) =>
          /\ tick_stack' = << >>
          /\ tick_count' = 0
          /\ \A i \in 1..Len(tick_stack) :
                /\ tick_stack[i].ptr \in DOMAIN released'
                /\ released'[tick_stack[i].ptr] = ReleaseCount(tick_stack[i].ptr) + 1]_vars

\* C5: after a submit of a live handle, two consecutive free_all_tickstack
\* calls, the first made under high pressure, have released that handle once
\* and left the stack empty with count 0.
TwoSweepsReleaseOnce ==
    hp_sweeps = 2 =>
        /\ ReleaseCount(last_ptr) = 1
        /\ tick_stack = << >>
        /\ tick_count = 0

\* C6: a free_all_tickstack call made while the pressure is below the
\* threshold releases no handle and leaves the entries, their order and the
\* count unchanged.
LowPressureDefers ==
    [][(free_all_tickstack /\ monitor_memory_pressure(tick_count) < MEMORY_PRESSURE_THRESHOLD) =>
          /\ UNCHANGED <<tick_stack, tick_count, released>>
          /\ last_report' = "FREE_ALL: Low memory pressure, deferring cascade"]_vars

\* C6 witness: a call deferred on a stack holding three entries, none released.
DeferredWithEntries ==
    /\ last_report = "FREE_ALL: Low memory pressure, deferring cascade"
    /\ tick_count = 3
    /\ Len(tick_stack) = 3
    /\ nsweeps = 0
    /\ \A i \in 1..3 : ReleaseCount(tick_stack[i].ptr) = 0

=============================================================================
